---------------------------- MODULE Spec2Model ----------------------------
(***************************************************************************)
(* A model of geecache: the byte-accounted LRU engine (lru/lru.go), the    *)
(* mutex-guarded cache shell (lockcache.go), the consistent-hash ring      *)
(* (consistenthash/consistenthash.go), the peer picker (http.go) and the   *)
(* group orchestrator with its single-flight gate (geecache.go).           *)
(*                                                                         *)
(* Strings are TLA+ strings: Len(s) is len(s) of the Go string or of the   *)
(* byte slice a ByteView holds.  The int64 byte counters never leave the   *)
(* range of a few bytes here, so they are plain integers.                  *)
(***************************************************************************)
EXTENDS Integers, Sequences, FiniteSets, TLC

VARIABLES
    lru,        \* the lru.Cache under test, or NilCache (LockCache.lru == nil)
    evicted,    \* keys handed to OnEvicted by the last operation, in order
    touch,      \* history: rank of each live key's last Add/Get (larger = newer)
    lastOp,     \* history: the last lru.Cache operation and what it found
    hung,       \* TRUE once an Add is spinning in its eviction loop for ever
    prog,       \* history: progress along ScenarioScript (-1: off the script)
    ring,       \* the ConsistHash (keys, hashMap), or NilRing (a nil *ConsistHash)
    hashfunc,   \* the HashFunc the ring was built with: byte string -> hash value
    ringNodes,  \* history: per node name, its Adds not yet undone by a Remove
    undo,       \* history: the ring before the Add(X) that a Remove(X) now undoes
    got,        \* the name the last ConsistHash.Get returned
    ringPanic,  \* TRUE once ConsistHash.Remove has panicked (slice bounds)
    cacheBytes, \* Group.lockCache.cacheBytes, as given to NewGroup
    peers,      \* Group.peers: NoPicker (nil) or the registered HTTPServer
    pc,         \* per goroutine: where it is inside Group.Get
    keyOf,      \* per goroutine: the key of its Group.Get
    ret,        \* per goroutine: what its last Group.Get returned
    cref,       \* per goroutine: the single-flight call it created or joined
    fnres,      \* per goroutine: what its run of the load function returns
    cacheMu,    \* holder of LockCache.mu
    sfMu,       \* holder of the single-flight Group's mutex
    pickMu,     \* holder of HTTPServer.mu
    sfMap,      \* the single-flight map m: key -> call
    calls,      \* every call allocated so far (key, val, err, gate)
    loads,      \* history: per key, how often the loader callback ran
    peerCalls,  \* history: per key, how often a peer getter was called
    flags,      \* history: per goroutine, what its current Get did so far
    solo,       \* history: the last Gets that ran one after the other, alone
    batch,      \* history: have all Gets so far overlapped, on one key
    nGets,      \* number of Group.Get calls made
    ringHist,   \* history: the last call on the ring and the ring before it
    groups,     \* the process-wide registry: group name -> *Group
    mu,         \* the registry's sync.RWMutex: its writer and its readers
    regCall,    \* per goroutine: its NewGroup/GetGroup/RegisterPeers/Set call
    regLog      \* history: the registry calls made and the inserts completed

lruVars == <<lru, evicted, touch, lastOp, hung, prog>>
ringVars == <<ring, hashfunc, ringNodes, undo, got, ringPanic, ringHist>>
groupVars == <<cacheBytes, peers, pc, keyOf, ret, cref, fnres, cacheMu, sfMu,
               pickMu, sfMap, calls, loads, peerCalls, flags, solo, batch, nGets>>
regVars == <<groups, mu, regCall, regLog>>
vars == <<lru, evicted, touch, lastOp, hung, prog,
          ring, hashfunc, ringNodes, undo, got, ringPanic, ringHist,
          cacheBytes, peers, pc, keyOf, ret, cref, fnres, cacheMu, sfMu,
          pickMu, sfMap, calls, loads, peerCalls, flags, solo, batch, nGets,
          groups, mu, regCall, regLog>>

---------------------------------------------------------------------------
(* Bounds of the model                                                     *)

\* max-bytes values New is given in SpecLru: -1 .. MaxCacheBytes
MaxCacheBytes == 6

LruKeys == {"a", "bb", "c"}
LruVals == {"1", "22"}
LruMaxBytes == -1 .. MaxCacheBytes

ScenKeys == {"a", "b", "c", "d", "e"}
ScenVal == [k \in ScenKeys |->
              CASE k = "a" -> "1" [] k = "b" -> "2" [] k = "c" -> "3"
                [] k = "d" -> "4" [] OTHER -> "5"]
ScenMaxBytes == {8, 9, 10}

\* replicas, the number of virtual points per real node
Replicas == 2
\* hash values are 0 .. MaxHash
MaxHash == 2
\* ConsistHash.Add is not called once the ring holds this many real nodes
MaxRingNodes == 3

RingNodes == {"n1", "n2"}
RingLookupKeys == {"Tom"}

\* Group.Get is called at most MaxGets times in all
MaxGets == 3
\* NewGroup, GetGroup, RegisterPeers and Set are called at most
\* MaxRegistryCalls times in all
MaxRegistryCalls == 4
\* in SpecLocks, Group.Get and the registry calls together are called at most
\* MaxLockCalls times
MaxLockCalls == 3

Threads == {"g1", "g2"}
\* the keys Group.Get is called with: empty, in the source, not in the source
GroupKeys == {"", "Tom", "x"}
\* the cacheBytes values NewGroup is given
GroupCacheBytes == {-1, 0, 3, 8}
\* this node's address and the other peer's
Self == "n1"
Other == "n2"
\* the names groups are registered under and looked up by
GroupNames == {"scores", "scores111"}

---------------------------------------------------------------------------
(* lru/lru.go                                                              *)

NilCache == [nil |-> TRUE]

\* nodeData
Entry(k, v) == [key |-> k, value |-> v]

\* Value.Len, for a ByteView: len(v.b)
ValueLen(v) == Len(v)

\* New: an empty list, an empty dictionary, nowBytes zero
New(maxBytes) ==
    [maxBytes |-> maxBytes, nowBytes |-> 0, doubleLinkList |-> <<>>,
     dictionary |-> {}]

\* the list element dictionary[key] points to
ElementOf(c, key) ==
    CHOOSE i \in 1 .. Len(c.doubleLinkList) : c.doubleLinkList[i].key = key

\* list.MoveToFront
MoveToFront(l, i) ==
    <<l[i]>> \o SubSeq(l, 1, i - 1) \o SubSeq(l, i + 1, Len(l))

\* list.PushFront
PushFront(l, e) == <<e>> \o l

\* Cache.Len
CacheLen(c) == Len(c.doubleLinkList)

\* Cache.RemoveOldest: unlink the back element, if any
RemoveOldest(c) ==
    IF c.doubleLinkList = <<>> THEN c
    ELSE LET n  == Len(c.doubleLinkList)
             kv == c.doubleLinkList[n]
         IN  [c EXCEPT !.doubleLinkList = SubSeq(c.doubleLinkList, 1, n - 1),
                       !.dictionary = @ \ {kv.key},
                       !.nowBytes = @ - (Len(kv.key) + ValueLen(kv.value))]

\* the key RemoveOldest hands to OnEvicted (<<>> when the list is empty)
RemoveOldestEvicts(c) ==
    IF c.doubleLinkList = <<>> THEN <<>>
    ELSE <<c.doubleLinkList[Len(c.doubleLinkList)].key>>

\* mutant of OverLimit: evicts already when nowBytes reaches maxBytes
OverLimitInclusive(c) == c.maxBytes # 0 /\ c.maxBytes <= c.nowBytes

\* the loop condition of Add, line 56
OverLimit(c) == c.maxBytes # 0 /\ c.maxBytes < c.nowBytes

\* the eviction loop of Add, as far as it removes anything
RECURSIVE EvictLoop(_)
EvictLoop(c) ==
    IF OverLimit(c) /\ c.doubleLinkList # <<>>
    THEN EvictLoop(RemoveOldest(c))
    ELSE c

\* the keys the eviction loop hands to OnEvicted, in order
RECURSIVE EvictLoopEvicts(_)
EvictLoopEvicts(c) ==
    IF OverLimit(c) /\ c.doubleLinkList # <<>>
    THEN RemoveOldestEvicts(c) \o EvictLoopEvicts(RemoveOldest(c))
    ELSE <<>>

\* the loop condition still holds on an empty list: RemoveOldest does
\* nothing and the loop of Add never ends
LoopSpins(c) == OverLimit(c) /\ c.doubleLinkList = <<>>

\* mutant of AddEntry: an update adds the new length without taking the old
\* one off
AddEntryNoSubtract(c, key, value) ==
    IF key \in c.dictionary
    THEN LET i  == ElementOf(c, key)
             l  == MoveToFront(c.doubleLinkList, i)
         IN  [c EXCEPT !.doubleLinkList = [l EXCEPT ![1].value = value],
                       !.nowBytes = @ + ValueLen(value)]
    ELSE [c EXCEPT !.doubleLinkList = PushFront(@, Entry(key, value)),
                   !.dictionary = @ \cup {key},
                   !.nowBytes = @ + Len(key) + ValueLen(value)]

\* mutant of AddEntry: a new entry is pushed but not entered in the dictionary
AddEntryNoDict(c, key, value) ==
    IF key \in c.dictionary
    THEN LET i  == ElementOf(c, key)
             kv == c.doubleLinkList[i]
             l  == MoveToFront(c.doubleLinkList, i)
         IN  [c EXCEPT !.doubleLinkList = [l EXCEPT ![1].value = value],
                       !.nowBytes = @ + ValueLen(value) - ValueLen(kv.value)]
    ELSE [c EXCEPT !.doubleLinkList = PushFront(@, Entry(key, value)),
                   !.nowBytes = @ + Len(key) + ValueLen(value)]

\* Add, lines 42-54: update in place or insert at the front
AddEntry(c, key, value) ==
    IF key \in c.dictionary
    THEN LET i  == ElementOf(c, key)
             kv == c.doubleLinkList[i]
             l  == MoveToFront(c.doubleLinkList, i)
         IN  [c EXCEPT !.doubleLinkList = [l EXCEPT ![1].value = value],
                       !.nowBytes = @ + ValueLen(value) - ValueLen(kv.value)]
    ELSE [c EXCEPT !.doubleLinkList = PushFront(@, Entry(key, value)),
                   !.dictionary = @ \cup {key},
                   !.nowBytes = @ + Len(key) + ValueLen(value)]

\* Cache.Add
Add(c, key, value) == EvictLoop(AddEntry(c, key, value))

AddEvicts(c, key, value) == EvictLoopEvicts(AddEntry(c, key, value))

\* mutant of Get: the entry found is not moved to the front
GetNoMove(c, key) == c

\* Cache.Get: the cache after the lookup
Get(c, key) ==
    IF key \in c.dictionary
    THEN [c EXCEPT !.doubleLinkList = MoveToFront(@, ElementOf(c, key))]
    ELSE c

\* Cache.Get: ok
GetOk(c, key) == key \in c.dictionary

\* Cache.Get: value (the zero Value when not found)
GetValue(c, key) ==
    IF key \in c.dictionary THEN c.doubleLinkList[ElementOf(c, key)].value
    ELSE ""

---------------------------------------------------------------------------
(* History kept beside the cache: when each live key was last touched      *)

LiveKeys(c) == {c.doubleLinkList[i].key : i \in 1 .. Len(c.doubleLinkList)}

MaxRank(t) == IF DOMAIN t = {} THEN 0
              ELSE CHOOSE m \in {t[x] : x \in DOMAIN t} :
                      \A x \in DOMAIN t : t[x] <= m

\* key touched now: it gets a rank above every other
Touched(t, key) ==
    [x \in DOMAIN t \cup {key} |-> IF x = key THEN MaxRank(t) + 1 ELSE t[x]]

\* the ranks of the keys in live, renumbered 1..n in the same order
Compact(t, live) ==
    [x \in live |-> Cardinality({y \in live : t[y] <= t[x]})]

ScenarioScript ==
    << [op |-> "Add", key |-> "a", value |-> "1"],
       [op |-> "Add", key |-> "b", value |-> "2"],
       [op |-> "Add", key |-> "c", value |-> "3"],
       [op |-> "Get", key |-> "a", value |-> "1"],
       [op |-> "Add", key |-> "d", value |-> "4"],
       [op |-> "Add", key |-> "e", value |-> "5"] >>

\* the script advances when the call made is its next step
Advance(p, op, key, value) ==
    IF p >= 0 /\ p < Len(ScenarioScript)
       /\ ScenarioScript[p + 1].op = op /\ ScenarioScript[p + 1].key = key
       /\ (op = "Add" => ScenarioScript[p + 1].value = value)
    THEN p + 1 ELSE -1

---------------------------------------------------------------------------
(* consistenthash/consistenthash.go                                        *)

NilRing == [nil |-> TRUE]

Digits == <<"0", "1", "2", "3", "4", "5", "6", "7", "8", "9">>

\* strconv.Itoa, for i >= 0
RECURSIVE Itoa(_)
Itoa(i) == IF i < 10 THEN Digits[i + 1]
           ELSE Itoa(i \div 10) \o Digits[(i % 10) + 1]

\* the name of virtual node i of a real node: strconv.Itoa(i) + key
VirtualName(i, key) == Itoa(i) \o key

\* int(h.hashfunc([]byte(s)))
Hash(hf, s) == hf[s]

\* a Go map: m[k] = v, delete(m, k), and m[k] read (the zero value if absent)
MapPut(m, k, v) == [x \in DOMAIN m \cup {k} |-> IF x = k THEN v ELSE m[x]]
MapDelete(m, k) == [x \in DOMAIN m \ {k} |-> m[x]]
MapGet(m, k) == IF k \in DOMAIN m THEN m[k] ELSE ""

\* sort.Ints
RECURSIVE InsertSorted(_, _)
InsertSorted(l, x) ==
    IF l = <<>> THEN <<x>>
    ELSE IF x <= Head(l) THEN <<x>> \o l
    ELSE <<Head(l)>> \o InsertSorted(Tail(l), x)

RECURSIVE SortInts(_)
SortInts(l) == IF l = <<>> THEN <<>> ELSE InsertSorted(SortInts(Tail(l)), Head(l))

\* mutant of Search: the predicate is a[i] > x, a point equal to x is passed
RECURSIVE SearchStrict(_, _, _, _)
SearchStrict(a, x, i, j) ==
    IF i < j
    THEN LET h == (i + j) \div 2
         IN  IF ~(a[h + 1] > x) THEN SearchStrict(a, x, h + 1, j)
             ELSE SearchStrict(a, x, i, h)
    ELSE i

\* sort.Search(len(a), func(i) { return a[i] >= x }): binary search on the
\* half-open index range [i, j) of the 0-based slice a
RECURSIVE Search(_, _, _, _)
Search(a, x, i, j) ==
    IF i < j
    THEN LET h == (i + j) \div 2
         IN  IF ~(a[h + 1] >= x) THEN Search(a, x, h + 1, j)
             ELSE Search(a, x, i, h)
    ELSE i

\* sort.SearchInts(a, x)
SearchInts(a, x) == Search(a, x, 0, Len(a))

\* consistenthash.New: no keys, an empty map
RingNew == [keys |-> <<>>, hashMap |-> <<>>]

\* the inner loop of Add, lines 38-46: virtual nodes i .. replicas-1 of key
RECURSIVE AddReplicas(_, _, _, _)
AddReplicas(r, hf, key, i) ==
    IF i < Replicas
    THEN LET hashvalue == Hash(hf, VirtualName(i, key))
         IN  AddReplicas([keys |-> Append(r.keys, hashvalue),
                          hashMap |-> MapPut(r.hashMap, hashvalue, key)],
                         hf, key, i + 1)
    ELSE r

\* the outer loop of Add, line 37
RECURSIVE AddNames(_, _, _)
AddNames(r, hf, names) ==
    IF names = <<>> THEN r
    ELSE AddNames(AddReplicas(r, hf, Head(names), 0), hf, Tail(names))

\* ConsistHash.Add(keys...): append every virtual point, then sort
RingAdd(r, hf, names) ==
    LET a == AddNames(r, hf, names)
    IN  [keys |-> SortInts(a.keys), hashMap |-> a.hashMap]

\* ConsistHash.Get
RingGet(r, hf, key) ==
    IF Len(r.keys) = 0 THEN ""
    ELSE LET hashvalue == Hash(hf, key)
             idx == SearchInts(r.keys, hashvalue)
         IN  MapGet(r.hashMap, r.keys[(idx % Len(r.keys)) + 1])

\* the loop of Remove from virtual node i on.  h.keys[idx+1:] panics when
\* idx = len(h.keys); the ring then keeps what the earlier rounds left.
RECURSIVE RemoveReplicas(_, _, _, _)
RemoveReplicas(r, hf, key, i) ==
    IF i < Replicas
    THEN LET hash == Hash(hf, VirtualName(i, key))
             idx  == SearchInts(r.keys, hash)
         IN  IF idx + 1 > Len(r.keys)
             THEN [keys |-> r.keys, hashMap |-> r.hashMap, panic |-> TRUE]
             ELSE RemoveReplicas(
                     [keys |-> SubSeq(r.keys, 1, idx)
                                  \o SubSeq(r.keys, idx + 2, Len(r.keys)),
                      hashMap |-> MapDelete(r.hashMap, hash)],
                     hf, key, i + 1)
    ELSE [keys |-> r.keys, hashMap |-> r.hashMap, panic |-> FALSE]

\* ConsistHash.Remove(key): the ring it leaves, and whether it panicked
RingRemove(r, hf, key) == RemoveReplicas(r, hf, key, 0)

---------------------------------------------------------------------------
(* geecache.go, lockcache.go, http.go and the single-flight gate          *)

\* the source behind the loader callback (geecache_test.go, db)
DB == [k \in {"Tom"} |-> "630"]

\* the loader callback of TestGet: the value, or an error for an unknown key
NotExist(k) == k \o " not exist"
CallbackGet(k) ==
    IF k \in DOMAIN DB THEN [val |-> DB[k], err |-> ""]
    ELSE [val |-> "", err |-> NotExist(k)]

KeyRequired == "key is required"
PeerError == "peer error"

None == "none"
NoPicker == [nil |-> TRUE]

\* mutant of Unlock: the deferred Unlock is left out
UnlockForgotten(holder) == holder

\* sync.Mutex.Unlock, deferred in LockCache.get and LockCache.add
Unlock(holder) == None

\* HTTPServer.Set(peers...): a fresh ring holding the peers, a client each
HTTPServerSet(hf, names) ==
    [ring |-> RingAdd(RingNew, hf, names),
     httpClients |-> {names[i] : i \in 1 .. Len(names)}]

\* mutant of PickPeer: the owner is not compared with p.self
PickPeerNoSelfCheck(r, hf, self, k) == RingGet(r, hf, k)

\* HTTPServer.PickPeer, lines 99-103: the peer picked, "" for (nil, false)
PickPeer(r, hf, self, k) ==
    LET peer == RingGet(r, hf, k)
    IN  IF peer # "" /\ peer # self THEN peer ELSE ""

\* mutant of AfterPeer: a peer's error ends the load as well
AfterPeerNoFallback(ok) == "store"

\* mutant of AfterLoader: the callback's result is cached whatever its error
AfterLoaderAlwaysPopulate(res) == "populateLock"

\* mutant of InFlight: a registered entry is never seen
InFlightNever(k) == FALSE

\* mutant of AfterPeer: a peer's value is put in the local cache too
AfterPeerPopulate(ok) == IF ok THEN "populateLock" ELSE "loader"

\* Group.load, lines 86-93: a peer's value ends the load, a peer's error
\* falls through to getLocally
AfterPeer(ok) == IF ok THEN "store" ELSE "loader"

\* Group.getLocally, lines 104-110: an error of the callback ends the load
\* with nothing cached, its bytes go to populateCache
AfterLoader(res) == IF res.err = "" THEN "populateLock" ELSE "store"

\* mutant of Forget: the entry stays in the map when its leader returns
ForgetNever(m, k) == m

\* single-flight Do: the map once the leader has cleared its entry
Forget(m, k) == MapDelete(m, k)

\* single-flight Do: is an entry registered under the key
InFlight(k) == k \in DOMAIN sfMap

\* Group.load, lines 95-98: the value only when err == nil
LoadReturn(res) ==
    IF res.err = "" THEN [val |-> res.val, err |-> ""]
    ELSE [val |-> "", err |-> res.err]

NoRet == [state |-> "none", val |-> "", err |-> ""]
Running == [state |-> "running", val |-> "", err |-> ""]
Returned(res) == [state |-> "returned", val |-> res.val, err |-> res.err]

NoFlags == [role |-> "none", picked |-> "", peerFailed |-> FALSE,
            peerOk |-> FALSE, loaded |-> FALSE, populated |-> FALSE,
            loads0 |-> 0, alone |-> FALSE]

\* an unrecovered panic ends the process
Crashed == \E t \in Threads : pc[t] = "panicked"

AllIdle == \A t \in Threads : pc[t] = "idle"

\* the history of Gets that ran alone, one after the other: the last two
SoloAfter(t, res) ==
    IF flags[t].alone
    THEN LET e == [key |-> keyOf[t], val |-> res.val, err |-> res.err,
                   loads0 |-> flags[t].loads0,
                   loads1 |-> IF keyOf[t] \in DOMAIN loads THEN loads[keyOf[t]] ELSE 0]
         IN  IF solo = <<>> THEN <<e>> ELSE <<solo[Len(solo)], e>>
    ELSE <<>>

\* goroutine t returns res from Group.Get
Return(t, res) ==
    /\ ret' = [ret EXCEPT ![t] = Returned(res)]
    /\ pc' = [pc EXCEPT ![t] = "idle"]
    /\ solo' = SoloAfter(t, res)

\* Group.Get, lines 67-69: the call, and the empty key rejected
GetCall(t, k) ==
    /\ ~Crashed
    /\ pc[t] = "idle"
    /\ nGets < MaxGets
    /\ nGets' = nGets + 1
    /\ keyOf' = [keyOf EXCEPT ![t] = k]
    /\ flags' = [u \in Threads |->
                   IF u = t
                   THEN [NoFlags EXCEPT !.loads0 = IF k = "" THEN 0 ELSE loads[k],
                                        !.alone = AllIdle,
                                        !.role = IF k = "" THEN "invalid" ELSE "none"]
                   ELSE [flags[u] EXCEPT !.alone = FALSE]]
    /\ batch' = [ok |-> /\ batch.ok
                        /\ k # ""
                        /\ \A u \in Threads : ret[u].state # "returned"
                        /\ (batch.n = 0 \/ batch.key = k),
                 key |-> k, n |-> batch.n + 1]
    /\ IF k = ""
       THEN /\ ret' = [ret EXCEPT ![t] = Returned([val |-> "", err |-> KeyRequired])]
            /\ solo' = IF AllIdle
                       THEN LET e == [key |-> k, val |-> "", err |-> KeyRequired,
                                      loads0 |-> 0, loads1 |-> 0]
                            IN  IF solo = <<>> THEN <<e>> ELSE <<solo[Len(solo)], e>>
                       ELSE <<>>
            /\ pc' = pc
       ELSE /\ ret' = [ret EXCEPT ![t] = Running]
            /\ solo' = IF AllIdle THEN solo ELSE <<>>
            /\ pc' = [pc EXCEPT ![t] = "cacheGetLock"]
    /\ UNCHANGED <<cacheBytes, peers, cref, fnres, cacheMu, sfMu, pickMu, sfMap,
                   calls, loads, peerCalls, lruVars, ringVars, regVars>>

\* LockCache.get, line 25: c.mu.Lock()
CacheGetLock(t) ==
    /\ ~Crashed
    /\ pc[t] = "cacheGetLock"
    /\ cacheMu = None
    /\ cacheMu' = t
    /\ pc' = [pc EXCEPT ![t] = "cacheGet"]
    /\ UNCHANGED <<cacheBytes, peers, keyOf, ret, cref, fnres, sfMu, pickMu, sfMap,
                   calls, loads, peerCalls, flags, solo, batch, nGets,
                   lruVars, ringVars, regVars>>

\* LockCache.get, lines 27-33, and Group.Get, lines 71-75: a hit returns the
\* cached view, a miss goes on to load
CacheGet(t) ==
    /\ ~Crashed
    /\ pc[t] = "cacheGet"
    /\ cacheMu = t
    /\ cacheMu' = Unlock(cacheMu)
    /\ IF lru # NilCache /\ GetOk(lru, keyOf[t])
       THEN /\ lru' = Get(lru, keyOf[t])
            /\ Return(t, [val |-> GetValue(lru, keyOf[t]), err |-> ""])
            /\ flags' = [flags EXCEPT ![t].role = "hit"]
       ELSE /\ lru' = lru
            /\ pc' = [pc EXCEPT ![t] = "doLock"]
            /\ UNCHANGED <<ret, solo, flags>>
    /\ UNCHANGED <<evicted, touch, lastOp, hung, prog>>
    /\ UNCHANGED <<cacheBytes, peers, keyOf, cref, fnres, sfMu, pickMu, sfMap,
                   calls, loads, peerCalls, batch, nGets, ringVars, regVars>>

\* single-flight Do: acquire the group mutex
DoLock(t) ==
    /\ ~Crashed
    /\ pc[t] = "doLock"
    /\ sfMu = None
    /\ sfMu' = t
    /\ pc' = [pc EXCEPT ![t] = "doLookup"]
    /\ UNCHANGED <<cacheBytes, peers, keyOf, ret, cref, fnres, cacheMu, pickMu,
                   sfMap, calls, loads, peerCalls, flags, solo, batch, nGets,
                   lruVars, ringVars, regVars>>

NewCall(k) == [key |-> k, val |-> "", err |-> "", stored |-> FALSE, done |-> FALSE]

\* single-flight Do, under the mutex: an entry for the key makes the caller a
\* follower of it; otherwise the caller registers a new entry and leads.
\* The leader then enters the function Group.load passes (lines 81-82).
DoLookup(t) ==
    /\ ~Crashed
    /\ pc[t] = "doLookup"
    /\ sfMu = t
    /\ sfMu' = None
    /\ IF InFlight(keyOf[t])
       THEN /\ cref' = [cref EXCEPT ![t] = sfMap[keyOf[t]]]
            /\ flags' = [flags EXCEPT ![t].role = "follower"]
            /\ pc' = [pc EXCEPT ![t] = "wait"]
            /\ UNCHANGED <<sfMap, calls>>
       ELSE /\ calls' = Append(calls, NewCall(keyOf[t]))
            /\ sfMap' = MapPut(sfMap, keyOf[t], Len(calls) + 1)
            /\ cref' = [cref EXCEPT ![t] = Len(calls) + 1]
            /\ flags' = [flags EXCEPT ![t].role = "leader"]
            /\ pc' = [pc EXCEPT ![t] = IF peers # NoPicker THEN "pickLock"
                                       ELSE "loader"]
    /\ UNCHANGED <<cacheBytes, peers, keyOf, ret, fnres, cacheMu, pickMu,
                   loads, peerCalls, solo, batch, nGets, lruVars, ringVars, regVars>>

\* single-flight Do, follower: wait on the entry's completion gate, then
\* return the result and error it holds
DoWait(t) ==
    /\ ~Crashed
    /\ pc[t] = "wait"
    /\ calls[cref[t]].done
    /\ Return(t, LoadReturn([val |-> calls[cref[t]].val, err |-> calls[cref[t]].err]))
    /\ UNCHANGED <<cacheBytes, peers, keyOf, cref, fnres, cacheMu, sfMu, pickMu,
                   sfMap, calls, loads, peerCalls, flags, batch, nGets,
                   lruVars, ringVars, regVars>>

\* HTTPServer.PickPeer, line 97: p.mu.Lock()
PickPeerLock(t) ==
    /\ ~Crashed
    /\ pc[t] = "pickLock"
    /\ pickMu = None
    /\ pickMu' = t
    /\ pc' = [pc EXCEPT ![t] = "pickPeer"]
    /\ UNCHANGED <<cacheBytes, peers, keyOf, ret, cref, fnres, cacheMu, sfMu,
                   sfMap, calls, loads, peerCalls, flags, solo, batch, nGets,
                   lruVars, ringVars, regVars>>

\* HTTPServer.PickPeer, lines 98-103, and Group.load, line 84: a remote
\* owner sends the load to the peer, anything else to the local loader.
\* p.peers is nil until Set is called: p.peers.Get then panics.
PickPeerBody(t) ==
    /\ ~Crashed
    /\ pc[t] = "pickPeer"
    /\ pickMu = t
    /\ pickMu' = None
    /\ IF ring = NilRing
       THEN /\ pc' = [pc EXCEPT ![t] = "panicked"]
            /\ flags' = flags
       ELSE LET peer == PickPeer(ring, hashfunc, peers.self, keyOf[t])
            IN  /\ flags' = [flags EXCEPT ![t].picked = peer]
                /\ pc' = [pc EXCEPT ![t] = IF peer # "" THEN "peerGet" ELSE "loader"]
    /\ UNCHANGED <<cacheBytes, peers, keyOf, ret, cref, fnres, cacheMu, sfMu,
                   sfMap, calls, loads, peerCalls, solo, batch, nGets,
                   lruVars, ringVars, regVars>>

\* Group.getFromPeer and Group.load, lines 86-90: the peer's value ends the
\* load; an error from the peer falls through to the local loader.  The peer
\* serves the same source, or fails.
GetFromPeer(t, ok) ==
    /\ ~Crashed
    /\ pc[t] = "peerGet"
    /\ ok => keyOf[t] \in DOMAIN DB
    /\ peerCalls' = [peerCalls EXCEPT ![keyOf[t]] = @ + 1]
    /\ IF ok
       THEN /\ fnres' = [fnres EXCEPT ![t] = [val |-> DB[keyOf[t]], err |-> ""]]
            /\ flags' = [flags EXCEPT ![t].peerOk = TRUE]
       ELSE /\ fnres' = [fnres EXCEPT ![t] = [val |-> "", err |-> PeerError]]
            /\ flags' = [flags EXCEPT ![t].peerFailed = TRUE]
    /\ pc' = [pc EXCEPT ![t] = AfterPeer(ok)]
    /\ UNCHANGED <<cacheBytes, peers, keyOf, ret, cref, cacheMu, sfMu, pickMu,
                   sfMap, calls, loads, solo, batch, nGets, lruVars, ringVars, regVars>>

\* Group.getLocally, lines 103-108: the callback runs; its error ends the
\* load, its bytes are copied into a ByteView to be cached
GetLocally(t) ==
    /\ ~Crashed
    /\ pc[t] = "loader"
    /\ loads' = [loads EXCEPT ![keyOf[t]] = @ + 1]
    /\ fnres' = [fnres EXCEPT ![t] = CallbackGet(keyOf[t])]
    /\ flags' = [flags EXCEPT ![t].loaded = TRUE]
    /\ pc' = [pc EXCEPT ![t] = AfterLoader(CallbackGet(keyOf[t]))]
    /\ UNCHANGED <<cacheBytes, peers, keyOf, ret, cref, cacheMu, sfMu, pickMu,
                   sfMap, calls, peerCalls, solo, batch, nGets, lruVars, ringVars, regVars>>

\* LockCache.add, line 15: c.mu.Lock()
PopulateLock(t) ==
    /\ ~Crashed
    /\ pc[t] = "populateLock"
    /\ cacheMu = None
    /\ cacheMu' = t
    /\ pc' = [pc EXCEPT ![t] = "populate"]
    /\ UNCHANGED <<cacheBytes, peers, keyOf, ret, cref, fnres, sfMu, pickMu,
                   sfMap, calls, loads, peerCalls, flags, solo, batch, nGets,
                   lruVars, ringVars, regVars>>

\* LockCache.add, lines 18-21: the cache the entry is added to
LazyCache(c, maxBytes) == IF c = NilCache THEN New(maxBytes) ELSE c

\* Group.populateCache / LockCache.add, lines 16-21: create the LRU on first
\* use, add the entry, unlock.  An Add whose eviction loop never ends keeps
\* the mutex for ever.
PopulateCache(t) ==
    /\ ~Crashed
    /\ pc[t] = "populate"
    /\ cacheMu = t
    /\ lru' = Add(LazyCache(lru, cacheBytes), keyOf[t], fnres[t].val)
    /\ flags' = [flags EXCEPT ![t].populated = TRUE]
    /\ IF LoopSpins(lru')
       THEN /\ hung' = TRUE
            /\ cacheMu' = cacheMu
            /\ pc' = [pc EXCEPT ![t] = "spin"]
       ELSE /\ hung' = hung
            /\ cacheMu' = Unlock(cacheMu)
            /\ pc' = [pc EXCEPT ![t] = "store"]
    /\ UNCHANGED <<evicted, touch, lastOp, prog>>
    /\ UNCHANGED <<cacheBytes, peers, keyOf, ret, cref, fnres, sfMu, pickMu,
                   sfMap, calls, loads, peerCalls, solo, batch, nGets, ringVars, regVars>>

\* single-flight Do, leader: store what the function returned in the entry
DoStore(t) ==
    /\ ~Crashed
    /\ pc[t] = "store"
    /\ calls' = [calls EXCEPT ![cref[t]].val = fnres[t].val,
                              ![cref[t]].err = fnres[t].err,
                              ![cref[t]].stored = TRUE]
    /\ fnres' = [fnres EXCEPT ![t] = [val |-> "", err |-> ""]]
    /\ pc' = [pc EXCEPT ![t] = "release"]
    /\ UNCHANGED <<cacheBytes, peers, keyOf, ret, cref, cacheMu, sfMu,
                   pickMu, sfMap, loads, peerCalls, flags, solo, batch, nGets,
                   lruVars, ringVars, regVars>>

\* single-flight Do, leader: release the entry's completion gate
DoRelease(t) ==
    /\ ~Crashed
    /\ pc[t] = "release"
    /\ calls' = [calls EXCEPT ![cref[t]].done = TRUE]
    /\ pc' = [pc EXCEPT ![t] = "deleteLock"]
    /\ UNCHANGED <<cacheBytes, peers, keyOf, ret, cref, fnres, cacheMu, sfMu,
                   pickMu, sfMap, loads, peerCalls, flags, solo, batch, nGets,
                   lruVars, ringVars, regVars>>

\* single-flight Do, leader: re-acquire the group mutex
DoDeleteLock(t) ==
    /\ ~Crashed
    /\ pc[t] = "deleteLock"
    /\ sfMu = None
    /\ sfMu' = t
    /\ pc' = [pc EXCEPT ![t] = "delete"]
    /\ UNCHANGED <<cacheBytes, peers, keyOf, ret, cref, fnres, cacheMu, pickMu,
                   sfMap, calls, loads, peerCalls, flags, solo, batch, nGets,
                   lruVars, ringVars, regVars>>

\* single-flight Do, leader: delete the entry from the map, unlock and
\* return the captured result (through Group.load, lines 95-98)
DoDelete(t) ==
    /\ ~Crashed
    /\ pc[t] = "delete"
    /\ sfMu = t
    /\ sfMu' = None
    /\ sfMap' = Forget(sfMap, keyOf[t])
    /\ Return(t, LoadReturn([val |-> calls[cref[t]].val, err |-> calls[cref[t]].err]))
    /\ UNCHANGED <<cacheBytes, peers, keyOf, cref, fnres, cacheMu, pickMu,
                   calls, loads, peerCalls, flags, batch, nGets, lruVars, ringVars, regVars>>

---------------------------------------------------------------------------
(* geecache.go: the registry of groups and RegisterPeers                   *)

\* the RWMutex of the registry, free
MuFree == [writer |-> None, readers |-> {}]

\* what a goroutine's registry call was given and returned; a *Group is the
\* number of the NewGroup that made it, 0 is the nil *Group
NoRegCall == [op |-> "none", name |-> "", picker |-> NoPicker, names |-> <<>>,
              ret |-> 0, seen |-> 0]

NoRegLog == [inserted |-> <<>>, calls |-> 0, registers |-> 0, overlap |-> FALSE]

\* the variables of Group.Get that the registry calls leave alone
getVars == <<cacheBytes, keyOf, ret, cref, fnres, cacheMu, sfMu, pickMu, sfMap,
             calls, loads, peerCalls, flags, solo, batch, nGets>>

\* mutant of RegistryInsert: a name already registered keeps its group
RegistryInsertIfAbsent(g, name, id) ==
    IF name \in DOMAIN g THEN g ELSE MapPut(g, name, id)

\* NewGroup, line 53: groups[name] = g
RegistryInsert(g, name, id) == MapPut(g, name, id)

\* GetGroup, line 60: groups[name], the nil *Group for an absent name
RegistryLookup(g, name) == IF name \in DOMAIN g THEN g[name] ELSE 0

\* NewGroup, lines 41-43: a nil callback panics before anything else
NewGroupCall(t, name, hasCallback) ==
    /\ ~Crashed
    /\ pc[t] = "idle"
    /\ regLog.calls < MaxRegistryCalls
    /\ regLog' = [regLog EXCEPT !.calls = @ + 1]
    /\ regCall' = [regCall EXCEPT ![t] = [NoRegCall EXCEPT !.op = "NewGroup",
                                                           !.name = name]]
    /\ pc' = [pc EXCEPT ![t] = IF hasCallback THEN "newGroupLock" ELSE "panicked"]
    /\ UNCHANGED <<groups, mu, peers, getVars, lruVars, ringVars>>

\* NewGroup, line 44: mu.Lock()
NewGroupLock(t) ==
    /\ ~Crashed
    /\ pc[t] = "newGroupLock"
    /\ mu.writer = None /\ mu.readers = {}
    /\ mu' = [mu EXCEPT !.writer = t]
    /\ pc' = [pc EXCEPT ![t] = "newGroupInsert"]
    /\ UNCHANGED <<groups, regCall, regLog, peers, getVars, lruVars, ringVars>>

\* NewGroup, lines 45-54: make the group, store it under its name, unlock,
\* return it
NewGroupInsert(t) ==
    /\ ~Crashed
    /\ pc[t] = "newGroupInsert"
    /\ mu.writer = t
    /\ LET g == Len(regLog.inserted) + 1
       IN  /\ groups' = RegistryInsert(groups, regCall[t].name, g)
           /\ regCall' = [regCall EXCEPT ![t].ret = g]
           /\ regLog' = [regLog EXCEPT !.inserted =
                            Append(@, [name |-> regCall[t].name, group |-> g])]
    /\ mu' = [mu EXCEPT !.writer = None]
    /\ pc' = [pc EXCEPT ![t] = "idle"]
    /\ UNCHANGED <<peers, getVars, lruVars, ringVars>>

\* GetGroup is called
GetGroupCall(t, name) ==
    /\ ~Crashed
    /\ pc[t] = "idle"
    /\ regLog.calls < MaxRegistryCalls
    /\ regLog' = [regLog EXCEPT !.calls = @ + 1]
    /\ regCall' = [regCall EXCEPT ![t] = [NoRegCall EXCEPT !.op = "GetGroup",
                                                           !.name = name]]
    /\ pc' = [pc EXCEPT ![t] = "getGroupRLock"]
    /\ UNCHANGED <<groups, mu, peers, getVars, lruVars, ringVars>>

\* GetGroup, line 59: mu.RLock()
GetGroupRLock(t) ==
    /\ ~Crashed
    /\ pc[t] = "getGroupRLock"
    /\ mu.writer = None
    /\ mu' = [mu EXCEPT !.readers = @ \cup {t}]
    /\ pc' = [pc EXCEPT ![t] = "getGroupRead"]
    /\ UNCHANGED <<groups, regCall, regLog, peers, getVars, lruVars, ringVars>>

\* GetGroup, lines 60-62: read the map, RUnlock, return what was read
GetGroupRead(t) ==
    /\ ~Crashed
    /\ pc[t] = "getGroupRead"
    /\ t \in mu.readers
    /\ regCall' = [regCall EXCEPT
                      ![t].ret = RegistryLookup(groups, regCall[t].name),
                      ![t].seen = Len(regLog.inserted)]
    /\ mu' = [mu EXCEPT !.readers = @ \ {t}]
    /\ pc' = [pc EXCEPT ![t] = "idle"]
    /\ UNCHANGED <<groups, regLog, peers, getVars, lruVars, ringVars>>

\* Group.RegisterPeers, lines 120-122: a picker already installed panics
RegisterPeersCheck(t, p) ==
    /\ ~Crashed
    /\ pc[t] = "idle"
    /\ regLog.calls < MaxRegistryCalls
    /\ regLog' = [regLog EXCEPT
                     !.calls = @ + 1,
                     !.overlap = @ \/ \E u \in Threads : pc[u] = "registerAssign"]
    /\ regCall' = [regCall EXCEPT ![t] = [NoRegCall EXCEPT !.op = "RegisterPeers",
                                                           !.picker = p]]
    /\ pc' = [pc EXCEPT ![t] = IF peers # NoPicker THEN "panicked"
                               ELSE "registerAssign"]
    /\ UNCHANGED <<groups, mu, peers, getVars, lruVars, ringVars>>

\* Group.RegisterPeers, line 123: g.peers = peers
RegisterPeersAssign(t) ==
    /\ ~Crashed
    /\ pc[t] = "registerAssign"
    /\ peers' = regCall[t].picker
    /\ regLog' = [regLog EXCEPT !.registers = @ + 1]
    /\ pc' = [pc EXCEPT ![t] = "idle"]
    /\ UNCHANGED <<groups, mu, regCall, getVars, lruVars, ringVars>>

\* HTTPServer.Set is called
SetCall(t, names) ==
    /\ ~Crashed
    /\ pc[t] = "idle"
    /\ peers # NoPicker
    /\ regLog.calls < MaxRegistryCalls
    /\ regLog' = [regLog EXCEPT !.calls = @ + 1]
    /\ regCall' = [regCall EXCEPT ![t] = [NoRegCall EXCEPT !.op = "Set",
                                                           !.names = names]]
    /\ pc' = [pc EXCEPT ![t] = "setLock"]
    /\ UNCHANGED <<groups, mu, peers, getVars, lruVars, ringVars>>

\* HTTPServer.Set, line 83: p.mu.Lock()
SetLock(t) ==
    /\ ~Crashed
    /\ pc[t] = "setLock"
    /\ pickMu = None
    /\ pickMu' = t
    /\ pc' = [pc EXCEPT ![t] = "setBody"]
    /\ UNCHANGED <<groups, mu, regCall, regLog, peers, lruVars, ringVars>>
    /\ UNCHANGED <<cacheBytes, keyOf, ret, cref, fnres, cacheMu, sfMu, sfMap,
                   calls, loads, peerCalls, flags, solo, batch, nGets>>

\* HTTPServer.Set, lines 84-91: a new ring holding the peers, a client for
\* each, unlock
SetBody(t) ==
    /\ ~Crashed
    /\ pc[t] = "setBody"
    /\ pickMu = t
    /\ ring' = HTTPServerSet(hashfunc, regCall[t].names).ring
    /\ peers' = [peers EXCEPT
                    !.httpClients = HTTPServerSet(hashfunc, regCall[t].names).httpClients]
    /\ pickMu' = None
    /\ pc' = [pc EXCEPT ![t] = "idle"]
    /\ UNCHANGED <<groups, mu, regCall, regLog, lruVars>>
    /\ UNCHANGED <<hashfunc, ringNodes, undo, got, ringPanic, ringHist>>
    /\ UNCHANGED <<cacheBytes, keyOf, ret, cref, fnres, cacheMu, sfMu, sfMap,
                   calls, loads, peerCalls, flags, solo, batch, nGets>>

---------------------------------------------------------------------------
(* The parts of the state a specification does not use stay as they are    *)

NoOp == [op |-> "New", key |-> "", found |-> FALSE]

NoUndo == [phase |-> "none", name |-> "", keys |-> <<>>, hashMap |-> <<>>]

\* no call made on the ring yet
NoRingOp == [op |-> "New", arg |-> <<>>, absent |-> FALSE, proper |-> TRUE,
             keys |-> <<>>, hashMap |-> <<>>]

RingIdle ==
    /\ ring = NilRing
    /\ hashfunc = <<>>
    /\ ringNodes = <<>>
    /\ undo = NoUndo
    /\ got = ""
    /\ ringPanic = FALSE
    /\ ringHist = NoRingOp

RegIdle ==
    /\ groups = <<>>
    /\ mu = MuFree
    /\ regCall = <<>>
    /\ regLog = NoRegLog

GroupIdle ==
    /\ cacheBytes = 0
    /\ peers = NoPicker
    /\ pc = <<>> /\ keyOf = <<>> /\ ret = <<>> /\ cref = <<>> /\ fnres = <<>>
    /\ cacheMu = None /\ sfMu = None /\ pickMu = None
    /\ sfMap = <<>> /\ calls = <<>>
    /\ loads = <<>> /\ peerCalls = <<>>
    /\ flags = <<>> /\ solo = <<>>
    /\ batch = [ok |-> TRUE, key |-> "", n |-> 0]
    /\ nGets = 0

LruIdle ==
    /\ lru = NilCache
    /\ evicted = <<>>
    /\ touch = <<>>
    /\ lastOp = NoOp
    /\ hung = FALSE
    /\ prog = 0

---------------------------------------------------------------------------
(* A single caller driving one lru.Cache                                   *)

InitLruWith(maxBytesSet) ==
    /\ lru \in {New(m) : m \in maxBytesSet}
    /\ evicted = <<>>
    /\ touch = <<>>
    /\ lastOp = NoOp
    /\ hung = FALSE
    /\ prog = 0
    /\ RingIdle
    /\ GroupIdle
    /\ RegIdle

LruAdd(key, value) ==
    /\ ~hung
    /\ lru' = Add(lru, key, value)
    /\ evicted' = AddEvicts(lru, key, value)
    /\ touch' = Compact(Touched(touch, key), LiveKeys(lru'))
    /\ lastOp' = [op |-> "Add", key |-> key, found |-> key \in lru.dictionary]
    /\ hung' = LoopSpins(lru')
    /\ prog' = Advance(prog, "Add", key, value)
    /\ UNCHANGED <<ringVars, groupVars, regVars>>

LruGet(key) ==
    /\ ~hung
    /\ lru' = Get(lru, key)
    /\ evicted' = <<>>
    /\ touch' = IF GetOk(lru, key) THEN Compact(Touched(touch, key), LiveKeys(lru'))
                ELSE touch
    /\ lastOp' = [op |-> "Get", key |-> key, found |-> GetOk(lru, key)]
    /\ hung' = FALSE
    /\ prog' = Advance(prog, "Get", key, "")
    /\ UNCHANGED <<ringVars, groupVars, regVars>>

LruRemoveOldest ==
    /\ ~hung
    /\ lru' = RemoveOldest(lru)
    /\ evicted' = RemoveOldestEvicts(lru)
    /\ touch' = Compact(touch, LiveKeys(lru'))
    /\ lastOp' = [op |-> "RemoveOldest", key |-> "", found |-> lru.doubleLinkList # <<>>]
    /\ hung' = FALSE
    /\ prog' = Advance(prog, "RemoveOldest", "", "")
    /\ UNCHANGED <<ringVars, groupVars, regVars>>

InitLru == InitLruWith(LruMaxBytes)

NextLru ==
    \/ \E key \in LruKeys, value \in LruVals : LruAdd(key, value)
    \/ \E key \in LruKeys : LruGet(key)
    \/ LruRemoveOldest

SpecLru == InitLru /\ [][NextLru]_vars

InitScenario == InitLruWith(ScenMaxBytes)

NextScenario ==
    \/ \E key \in ScenKeys : LruAdd(key, ScenVal[key])
    \/ \E key \in ScenKeys : LruGet(key)
    \/ LruRemoveOldest

SpecScenario == InitScenario /\ [][NextScenario]_vars

---------------------------------------------------------------------------
(* A single caller driving one ConsistHash                                 *)

\* every byte string the ring hashes in this model
RingHashDomain ==
    {VirtualName(i, n) : i \in 0 .. Replicas - 1, n \in RingNodes}
        \cup RingLookupKeys

NodesOnRing == {n \in DOMAIN ringNodes : ringNodes[n] > 0}

RECURSIVE CountAll(_, _)
CountAll(cnt, S) ==
    IF S = {} THEN 0
    ELSE LET x == CHOOSE y \in S : TRUE IN cnt[x] + CountAll(cnt, S \ {x})

\* the argument lists Add is called with: none, one or two names
AddArgs == {<<>>} \cup {<<n>> : n \in RingNodes}
               \cup {<<n, m>> : n \in RingNodes, m \in RingNodes}

InitRing ==
    /\ ring = RingNew
    /\ hashfunc \in [RingHashDomain -> 0 .. MaxHash]
    /\ ringNodes = [n \in RingNodes |-> 0]
    /\ undo = NoUndo
    /\ got = ""
    /\ ringPanic = FALSE
    /\ ringHist = NoRingOp
    /\ LruIdle
    /\ GroupIdle
    /\ RegIdle

RingAddOp(names) ==
    /\ ~ringPanic
    /\ CountAll(ringNodes, RingNodes) + Len(names) <= MaxRingNodes
    /\ ring' = RingAdd(ring, hashfunc, names)
    /\ ringNodes' = [n \in RingNodes |->
                        ringNodes[n] + Cardinality({i \in 1 .. Len(names) : names[i] = n})]
    /\ undo' = IF Len(names) = 1 /\ ringNodes[names[1]] = 0
               THEN [phase |-> "added", name |-> names[1],
                     keys |-> ring.keys, hashMap |-> ring.hashMap]
               ELSE NoUndo
    /\ ringHist' = [NoRingOp EXCEPT
                       !.op = "Add", !.arg = names,
                       !.proper = /\ ringHist.proper
                                  /\ \A i \in 1 .. Len(names) :
                                        /\ ringNodes[names[i]] = 0
                                        /\ \A j \in 1 .. Len(names) :
                                              names[j] = names[i] => j = i]
    /\ UNCHANGED <<hashfunc, got, ringPanic, lruVars, groupVars, regVars>>

RingRemoveOp(name) ==
    /\ ~ringPanic
    /\ LET r == RingRemove(ring, hashfunc, name)
       IN  /\ ring' = [keys |-> r.keys, hashMap |-> r.hashMap]
           /\ ringPanic' = r.panic
    /\ ringNodes' = [ringNodes EXCEPT ![name] = IF @ > 0 THEN @ - 1 ELSE 0]
    /\ undo' = IF undo.phase = "added" /\ undo.name = name
               THEN [undo EXCEPT !.phase = "removed"]
               ELSE NoUndo
    /\ ringHist' = [op |-> "Remove", arg |-> <<name>>,
                    absent |-> ringNodes[name] = 0,
                    proper |-> ringHist.proper /\ ringNodes[name] > 0,
                    keys |-> IF ringNodes[name] = 0 THEN ring.keys ELSE <<>>,
                    hashMap |-> IF ringNodes[name] = 0 THEN ring.hashMap ELSE <<>>]
    /\ UNCHANGED <<hashfunc, got, lruVars, groupVars, regVars>>

RingGetOp(key) ==
    /\ ~ringPanic
    /\ got' = RingGet(ring, hashfunc, key)
    /\ undo' = NoUndo
    /\ ringHist' = [NoRingOp EXCEPT !.op = "Get", !.arg = <<key>>,
                                    !.proper = ringHist.proper]
    /\ UNCHANGED <<ring, hashfunc, ringNodes, ringPanic, lruVars, groupVars, regVars>>

NextRing ==
    \/ \E names \in AddArgs : RingAddOp(names)
    \/ \E name \in RingNodes : RingRemoveOp(name)
    \/ \E key \in RingLookupKeys : RingGetOp(key)

SpecRing == InitRing /\ [][NextRing]_vars

\* rings built by Add alone, and looked up
NextLookup ==
    \/ \E names \in AddArgs : RingAddOp(names)
    \/ \E key \in RingLookupKeys : RingGetOp(key)

\* the hash functions of SpecLookup: the points of the first node are spread
\* over the hash values, those of the other node and of the keys are free
LookupHashFns ==
    {f \in [RingHashDomain -> 0 .. MaxHash] :
        \A i \in 0 .. Replicas - 1 : f[VirtualName(i, "n1")] = i % (MaxHash + 1)}

InitLookup ==
    /\ ring = RingNew
    /\ hashfunc \in LookupHashFns
    /\ ringNodes = [n \in RingNodes |-> 0]
    /\ undo = NoUndo
    /\ got = ""
    /\ ringPanic = FALSE
    /\ ringHist = NoRingOp
    /\ LruIdle
    /\ GroupIdle
    /\ RegIdle

SpecLookup == InitLookup /\ [][NextLookup]_vars

---------------------------------------------------------------------------
(* Goroutines calling Get on one Group                                     *)

GroupVirtualNames == {VirtualName(i, n) : i \in 0 .. Replicas - 1, n \in RingNodes}

\* the hash functions of SpecGroup: the virtual points of n1 and n2 alternate
\* round the ring, "x" hashes to 1, "Tom" to any value
GroupHashFns ==
    {[s \in GroupVirtualNames \cup (GroupKeys \ {""}) |->
         IF s = "Tom" THEN h
         ELSE IF s = "x" THEN 1
         ELSE LET i == CHOOSE j \in 0 .. Replicas - 1 :
                          \E n \in RingNodes : s = VirtualName(j, n)
              IN  (2 * i + (IF s = VirtualName(i, Self) THEN 0 ELSE 1))
                      % (MaxHash + 1)]
        : h \in 0 .. MaxHash}

\* the peer lists HTTPServer.Set is called with
SetArgs == {<<>>, <<Self>>, <<Self, Other>>}

\* the group as NewGroup leaves it, and the picker: none registered, an
\* HTTPServer registered before any Set, or one after Set(peers...)
InitGroup ==
    /\ cacheBytes \in GroupCacheBytes
    /\ \/ /\ peers = NoPicker
          /\ ring = NilRing
          /\ hashfunc = <<>>
       \/ /\ peers = [self |-> Self, httpClients |-> {}]
          /\ ring = NilRing
          /\ hashfunc = <<>>
       \/ \E names \in SetArgs :
            /\ hashfunc \in IF Len(names) >= 2 THEN GroupHashFns
                             ELSE {CHOOSE f \in GroupHashFns : f["Tom"] = 0}
            /\ peers = [self |-> Self,
                        httpClients |-> HTTPServerSet(hashfunc, names).httpClients]
            /\ ring = HTTPServerSet(hashfunc, names).ring
    /\ ringNodes = <<>> /\ undo = NoUndo /\ got = "" /\ ringPanic = FALSE
    /\ ringHist = NoRingOp
    /\ RegIdle
    /\ LruIdle
    /\ pc = [t \in Threads |-> "idle"]
    /\ keyOf = [t \in Threads |-> ""]
    /\ ret = [t \in Threads |-> NoRet]
    /\ cref = [t \in Threads |-> 0]
    /\ fnres = [t \in Threads |-> [val |-> "", err |-> ""]]
    /\ cacheMu = None /\ sfMu = None /\ pickMu = None
    /\ sfMap = <<>>
    /\ calls = <<>>
    /\ loads = [k \in GroupKeys \ {""} |-> 0]
    /\ peerCalls = [k \in GroupKeys \ {""} |-> 0]
    /\ flags = [t \in Threads |-> NoFlags]
    /\ solo = <<>>
    /\ batch = [ok |-> TRUE, key |-> "", n |-> 0]
    /\ nGets = 0

NextGroup ==
    \/ \E t \in Threads, k \in GroupKeys : GetCall(t, k)
    \/ \E t \in Threads : CacheGetLock(t)
    \/ \E t \in Threads : CacheGet(t)
    \/ \E t \in Threads : DoLock(t)
    \/ \E t \in Threads : DoLookup(t)
    \/ \E t \in Threads : DoWait(t)
    \/ \E t \in Threads : PickPeerLock(t)
    \/ \E t \in Threads : PickPeerBody(t)
    \/ \E t \in Threads, ok \in BOOLEAN : GetFromPeer(t, ok)
    \/ \E t \in Threads : GetLocally(t)
    \/ \E t \in Threads : PopulateLock(t)
    \/ \E t \in Threads : PopulateCache(t)
    \/ \E t \in Threads : DoStore(t)
    \/ \E t \in Threads : DoRelease(t)
    \/ \E t \in Threads : DoDeleteLock(t)
    \/ \E t \in Threads : DoDelete(t)

SpecGroup == InitGroup /\ [][NextGroup]_vars

\* a step of goroutine t inside Group.Get
Step(t) ==
    \/ CacheGetLock(t) \/ CacheGet(t)
    \/ DoLock(t) \/ DoLookup(t) \/ DoWait(t)
    \/ PickPeerLock(t) \/ PickPeerBody(t)
    \/ \E ok \in BOOLEAN : GetFromPeer(t, ok)
    \/ GetLocally(t)
    \/ PopulateLock(t) \/ PopulateCache(t)
    \/ DoStore(t) \/ DoRelease(t) \/ DoDeleteLock(t) \/ DoDelete(t)

\* the scheduler runs every goroutine that can take a step; the loader
\* callback and the peer getter return
SpecGroupFair == SpecGroup /\ \A t \in Threads : WF_vars(Step(t))

---------------------------------------------------------------------------
(* Goroutines calling NewGroup, GetGroup and RegisterPeers                 *)

\* the pickers RegisterPeers is given: nil, and two HTTPServers
Pickers == {NoPicker, [self |-> Self, httpClients |-> {}],
            [self |-> Other, httpClients |-> {}]}

\* an empty registry, and one group made outside it with no picker yet
InitRegistry ==
    /\ groups = <<>>
    /\ mu = MuFree
    /\ regCall = [t \in Threads |-> NoRegCall]
    /\ regLog = NoRegLog
    /\ cacheBytes = 0
    /\ peers = NoPicker
    /\ pc = [t \in Threads |-> "idle"]
    /\ keyOf = [t \in Threads |-> ""]
    /\ ret = [t \in Threads |-> NoRet]
    /\ cref = [t \in Threads |-> 0]
    /\ fnres = [t \in Threads |-> [val |-> "", err |-> ""]]
    /\ cacheMu = None /\ sfMu = None /\ pickMu = None
    /\ sfMap = <<>>
    /\ calls = <<>>
    /\ loads = [k \in GroupKeys \ {""} |-> 0]
    /\ peerCalls = [k \in GroupKeys \ {""} |-> 0]
    /\ flags = [t \in Threads |-> NoFlags]
    /\ solo = <<>>
    /\ batch = [ok |-> TRUE, key |-> "", n |-> 0]
    /\ nGets = 0
    /\ RingIdle
    /\ LruIdle

NextRegistry ==
    \/ \E t \in Threads, name \in GroupNames, cb \in BOOLEAN :
          NewGroupCall(t, name, cb)
    \/ \E t \in Threads : NewGroupLock(t)
    \/ \E t \in Threads : NewGroupInsert(t)
    \/ \E t \in Threads, name \in GroupNames : GetGroupCall(t, name)
    \/ \E t \in Threads : GetGroupRLock(t)
    \/ \E t \in Threads : GetGroupRead(t)
    \/ \E t \in Threads, p \in Pickers : RegisterPeersCheck(t, p)
    \/ \E t \in Threads : RegisterPeersAssign(t)

SpecRegistry == InitRegistry /\ [][NextRegistry]_vars

---------------------------------------------------------------------------
(* Goroutines calling Group.Get, NewGroup, GetGroup and HTTPServer.Set     *)

\* a group with an HTTPServer registered as its picker, before its first Set
\* or after Set(Self, Other); an empty registry
InitLocks ==
    /\ cacheBytes \in {0, 3}
    /\ hashfunc = CHOOSE f \in GroupHashFns : f["Tom"] = 1
    /\ \/ /\ peers = [self |-> Self, httpClients |-> {}]
          /\ ring = NilRing
       \/ /\ peers = [self |-> Self,
                       httpClients |-> HTTPServerSet(hashfunc, <<Self, Other>>).httpClients]
          /\ ring = HTTPServerSet(hashfunc, <<Self, Other>>).ring
    /\ ringNodes = <<>> /\ undo = NoUndo /\ got = "" /\ ringPanic = FALSE
    /\ ringHist = NoRingOp
    /\ groups = <<>>
    /\ mu = MuFree
    /\ regCall = [t \in Threads |-> NoRegCall]
    /\ regLog = NoRegLog
    /\ LruIdle
    /\ pc = [t \in Threads |-> "idle"]
    /\ keyOf = [t \in Threads |-> ""]
    /\ ret = [t \in Threads |-> NoRet]
    /\ cref = [t \in Threads |-> 0]
    /\ fnres = [t \in Threads |-> [val |-> "", err |-> ""]]
    /\ cacheMu = None /\ sfMu = None /\ pickMu = None
    /\ sfMap = <<>>
    /\ calls = <<>>
    /\ loads = [k \in GroupKeys \ {""} |-> 0]
    /\ peerCalls = [k \in GroupKeys \ {""} |-> 0]
    /\ flags = [t \in Threads |-> NoFlags]
    /\ solo = <<>>
    /\ batch = [ok |-> TRUE, key |-> "", n |-> 0]
    /\ nGets = 0

\* another call may be made
MoreCalls == nGets + regLog.calls < MaxLockCalls

NextLocks ==
    \/ \E t \in Threads : MoreCalls /\ GetCall(t, "Tom")
    \/ \E t \in Threads : Step(t)
    \/ \E t \in Threads : MoreCalls /\ NewGroupCall(t, "scores", TRUE)
    \/ \E t \in Threads : NewGroupLock(t)
    \/ \E t \in Threads : NewGroupInsert(t)
    \/ \E t \in Threads : MoreCalls /\ GetGroupCall(t, "scores")
    \/ \E t \in Threads : GetGroupRLock(t)
    \/ \E t \in Threads : GetGroupRead(t)
    \/ \E t \in Threads, names \in SetArgs : MoreCalls /\ SetCall(t, names)
    \/ \E t \in Threads : SetLock(t)
    \/ \E t \in Threads : SetBody(t)

SpecLocks == InitLocks /\ [][NextLocks]_vars

---------------------------------------------------------------------------
(* Properties of the LRU engine                                            *)

RECURSIVE ByteSum(_)
ByteSum(l) ==
    IF l = <<>> THEN 0
    ELSE Len(Head(l).key) + ValueLen(Head(l).value) + ByteSum(Tail(l))

\* C1 (LRU byte accounting): after any sequence of Add, Get and RemoveOldest
\* calls nowBytes is the sum of len(key) + value.Len() over the entries in
\* the list, and with maxBytes > 0 nowBytes <= maxBytes once the call is over.
C1_ByteAccounting ==
    /\ lru.nowBytes = ByteSum(lru.doubleLinkList)
    /\ (lru.maxBytes > 0 /\ ~hung) => lru.nowBytes <= lru.maxBytes

\* an Add that replaced a present key's value by a longer one and evicted
C1_Witness ==
    /\ lastOp.op = "Add" /\ lastOp.found
    /\ lru.maxBytes > 0
    /\ evicted # <<>>
    /\ lru.doubleLinkList # <<>>
    /\ lru.doubleLinkList[1].value = "22"

\* the key of the call is live and at the front of the list
FrontIsLastTouched ==
    (/\ lastOp.op \in {"Add", "Get"}
     /\ lastOp.op = "Get" => lastOp.found
     /\ lastOp.key \in LiveKeys(lru))
    => lru.doubleLinkList[1].key = lastOp.key

\* rank of key x while the step's evictions happen: the key of the call was
\* touched by it, every other key keeps the rank it had
RankDuring(x) ==
    IF lastOp'.op \in {"Add", "Get"} /\ x = lastOp'.key
    THEN MaxRank(touch) + 1 ELSE touch[x]

\* each evicted key was, when evicted, older than every other live key
EvictsOldest ==
    \A i \in 1 .. Len(evicted') :
        \A x \in (LiveKeys(lru') \cup {evicted'[j] : j \in i + 1 .. Len(evicted')}) :
            x # evicted'[i] => RankDuring(evicted'[i]) < RankDuring(x)

\* C5 (LRU recency): right after a Get(k) that finds k, or an Add(k, _) that
\* returns with k kept, k is the front element; and every entry RemoveOldest
\* evicts is the one whose last touch is older than that of every other
\* key live at that moment.
C5_Recency == [] FrontIsLastTouched /\ [][EvictsOldest]_vars

\* an Add evicted an entry while keeping others, after a Get had reordered
\* the list (the back entry is not the first one inserted)
C5_Witness ==
    /\ lastOp.op = "Add"
    /\ evicted # <<>>
    /\ Len(lru.doubleLinkList) >= 2
    /\ lru.doubleLinkList[1].key = lastOp.key

\* the scenario of six calls has just run on a fresh cache
ScenarioDone == prog = Len(ScenarioScript)

\* C6 as stated (Scenario A): with max-bytes = 10, after Add(a), Add(b),
\* Add(c), Get(a), Add(d), Add(e) the cache holds exactly {a, c, d, e}.
C6_Original ==
    (ScenarioDone /\ lru.maxBytes = 10) => LiveKeys(lru) = {"a", "c", "d", "e"}

\* C6 (amended): after the six calls, with max-bytes = 10 all five keys are
\* held and nothing was evicted (10 bytes do not exceed 10); with max-bytes
\* 8 or 9 the last Add evicts b, the least recently touched, and the cache
\* holds exactly {a, c, d, e}.
C6_ScenarioA ==
    ScenarioDone =>
        /\ lru.maxBytes = 10 =>
              LiveKeys(lru) = {"a", "b", "c", "d", "e"} /\ evicted = <<>>
        /\ lru.maxBytes \in {8, 9} =>
              LiveKeys(lru) = {"a", "c", "d", "e"} /\ evicted = <<"b">>

C6_Witness == ScenarioDone /\ lru.maxBytes = 10 /\ lru.nowBytes = 10

\* C18 as stated (eviction loop termination): every call to Add terminates,
\* for every max-bytes value New accepts and every cache state; and an Add
\* whose eviction loop evicts the entry just added has evicted every other
\* entry before it and ends with an empty cache (Len = 0, nowBytes = 0).
C18_AddTerminates ==
    /\ ~hung
    /\ (/\ lastOp.op = "Add"
        /\ \E i \in 1 .. Len(evicted) : evicted[i] = lastOp.key)
       => (CacheLen(lru) = 0 /\ lru.nowBytes = 0)

---------------------------------------------------------------------------
(* Properties of the group orchestrator                                    *)

HasReturned(t) == ret[t].state = "returned"

\* the entry (k, DB[k]) alone fits the cache
Fits(k) == cacheBytes = 0 \/ cacheBytes >= Len(k) + ValueLen(DB[k])

\* the cache shell holds (k, v)
Cached(k, v) == lru # NilCache /\ GetOk(lru, k) /\ GetValue(lru, k) = v

\* the last two Gets ran alone, one after the other, on the same key
TwoSuccessive(k) == Len(solo) = 2 /\ solo[1].key = k /\ solo[2].key = k

\* the loader ran at most once over both, and both returned the source value
OnceAndRight(k) ==
    /\ solo[2].loads1 - solo[1].loads0 <= 1
    /\ \A i \in 1 .. 2 : solo[i].val = DB[k] /\ solo[i].err = ""

\* C2 as stated (read-through caching): for any cacheBytes and any key k of
\* the source, two successive Group.Get(k) calls with no other call in
\* between invoke the loader at most once and both return the source value.
C2_Original == \A k \in DOMAIN DB : TwoSuccessive(k) => OnceAndRight(k)

\* C2 (amended): the same, for a group whose cacheBytes is 0 (unbounded) or
\* at least len(k) + len(value): a smaller positive cacheBytes makes Add
\* evict the entry it has just added, and the second Get loads again.
C2_ReadThrough ==
    \A k \in DOMAIN DB : (TwoSuccessive(k) /\ Fits(k)) => OnceAndRight(k)

\* the first of two successive Gets loaded the value, the second hit the cache
C2_Witness ==
    /\ TwoSuccessive("Tom") /\ Fits("Tom")
    /\ solo[1].loads1 - solo[1].loads0 = 1
    /\ solo[2].loads1 = solo[1].loads1
    /\ solo[2].val = "630"

\* number of single-flight executions started for key k
Fetches(k) == Cardinality({c \in 1 .. Len(calls) : calls[c].key = k})

\* at least two Gets, all for key k, each begun before any of them returned
\* (so on a cache that does not hold k), and all of them over
ConcurrentGetsDone(k) ==
    /\ batch.ok /\ batch.key = k /\ batch.n >= 2
    /\ \A t \in Threads : pc[t] = "idle"

\* C3 as stated (group-level coalescing): concurrent Group.Get(k) calls on a
\* cache that does not hold k fetch k only once, under every interleaving:
\* one execution of the load, the loader and the peer getter each invoked at
\* most once.  Stated here for the keys of the source whose entry fits the
\* cache, where a completed load leaves k cached.
C3_FetchedOnce ==
    \A k \in DOMAIN DB :
        (ConcurrentGetsDone(k) /\ Fits(k)) =>
            /\ Fetches(k) = 1
            /\ loads[k] <= 1
            /\ peerCalls[k] <= 1

\* the load function passed to Do is running (or stuck) in goroutine t
WorkPcs == {"pickLock", "pickPeer", "peerGet", "loader", "populateLock",
            "populate", "spin", "panicked"}

InDo(t) == pc[t] \in WorkPcs \cup {"store", "release", "deleteLock", "delete", "wait"}

\* C4 (single-flight coalescing): at every instant at most one execution of
\* work is in progress per key; every caller that arrives while an entry is
\* registered joins that entry, whose work runs in exactly one goroutine, and
\* returns the (result, error) pair the leader stored in it; the gate of an
\* entry is released only after both were stored, so no follower returns
\* before that.
C4_SingleFlight ==
    /\ \A k \in GroupKeys :
          Cardinality({t \in Threads : pc[t] \in WorkPcs /\ keyOf[t] = k}) <= 1
    /\ \A c \in 1 .. Len(calls) :
          /\ calls[c].done => calls[c].stored
          /\ Cardinality({t \in Threads : InDo(t) /\ cref[t] = c
                                          /\ flags[t].role = "leader"}) <= 1
    /\ \A t \in Threads :
          /\ pc[t] = "wait" => calls[cref[t]].key = keyOf[t]
          /\ (HasReturned(t) /\ flags[t].role \in {"leader", "follower"}) =>
                /\ calls[cref[t]].stored /\ calls[cref[t]].done
                /\ calls[cref[t]].key = keyOf[t]
                /\ ret[t].val = LoadReturn(calls[cref[t]]).val
                /\ ret[t].err = LoadReturn(calls[cref[t]]).err

\* a follower and the leader of the same entry have both returned its value
C4_Witness ==
    \E t, u \in Threads :
        /\ t # u /\ cref[t] = cref[u]
        /\ HasReturned(t) /\ flags[t].role = "follower"
        /\ HasReturned(u) /\ flags[u].role = "leader"
        /\ ret[t].val = "630" /\ ret[u].val = "630"

\* goroutine t led a load in which the peer failed and the loader succeeded
FellBack(t) ==
    /\ flags[t].role = "leader" /\ flags[t].peerFailed
    /\ keyOf[t] \in DOMAIN DB

\* C7 as stated (peer fallback): when the picked peer's Get fails, the same
\* single-flight execution calls the local loader; if it succeeds, Get
\* returns the loader's value without error and the local cache is populated
\* with (k, value).
C7_Original ==
    \A t \in Threads :
        (FellBack(t) /\ HasReturned(t)) =>
            /\ flags[t].loaded
            /\ ret[t].val = DB[keyOf[t]] /\ ret[t].err = ""
            /\ Cached(keyOf[t], DB[keyOf[t]])

\* after the peer failed, the execution went on to the loader, and what Get
\* returns is the loader's value
FallbackReturns ==
    \A t \in Threads :
        FellBack(t) =>
            /\ pc[t] \in {"populateLock", "populate", "store", "release",
                          "deleteLock", "delete"} => flags[t].loaded
            /\ HasReturned(t) =>
                  /\ flags[t].loaded /\ flags[t].populated
                  /\ ret[t].val = DB[keyOf[t]] /\ ret[t].err = ""

\* the populateCache call of a fallen-back load leaves (k, value) in the
\* cache when the entry fits, and an empty cache when it does not
FallbackPopulates ==
    \A t \in Threads :
        (FellBack(t) /\ pc[t] = "populate" /\ pc'[t] = "store") =>
            IF Fits(keyOf[t])
            THEN /\ GetOk(lru', keyOf[t])
                 /\ GetValue(lru', keyOf[t]) = DB[keyOf[t]]
            ELSE lru'.doubleLinkList = <<>>

\* C7 (amended): when the picked peer's Get fails, the same single-flight
\* execution calls the local loader; if it succeeds, Get returns the loader's
\* value without error and populateCache(k, value) has run: it leaves
\* (k, value) in the cache when cacheBytes is 0 or at least
\* len(k) + len(value), and evicts the entry at once otherwise.
C7_PeerFallback == [] FallbackReturns /\ [][FallbackPopulates]_vars

C7_Witness ==
    \E t \in Threads :
        /\ FellBack(t) /\ HasReturned(t)
        /\ peerCalls[keyOf[t]] >= 1
        /\ ret[t].val = "630"
        /\ Cached("Tom", "630")

\* goroutine t is the leader of call c and has not returned from Do
Leads(t, c) ==
    /\ flags[t].role = "leader" /\ cref[t] = c
    /\ pc[t] \in WorkPcs \cup {"store", "release", "deleteLock", "delete"}

\* per key at most one call has a leader inside Do, and the map holds
\* exactly the entries of those calls
OneEntryPerKey ==
    /\ \A k \in GroupKeys :
          Cardinality({c \in 1 .. Len(calls) :
                          calls[c].key = k /\ \E t \in Threads : Leads(t, c)}) <= 1
    /\ \A k \in DOMAIN sfMap :
          calls[sfMap[k]].key = k /\ \E t \in Threads : Leads(t, sfMap[k])
    /\ \A t \in Threads, c \in 1 .. Len(calls) :
          Leads(t, c) => (calls[c].key \in DOMAIN sfMap /\ sfMap[calls[c].key] = c)

\* an entry leaves the map only once its gate has been released, and is
\* never replaced while it is in the map
RemovedAfterRelease ==
    \A k \in DOMAIN sfMap :
        IF k \in DOMAIN sfMap' THEN sfMap'[k] = sfMap[k]
        ELSE calls[sfMap[k]].done

\* a caller that passes the lookup of Do joins a call whose leader has not
\* returned, or, when there is none, starts a new call whose work it runs
FreshAfterReturn ==
    \A t \in Threads :
        (pc[t] = "doLookup" /\ pc'[t] # "doLookup") =>
            IF \E u \in Threads : Leads(u, cref'[t]) /\ u # t
            THEN /\ pc'[t] = "wait" /\ calls' = calls
                 /\ calls[cref'[t]].key = keyOf[t]
            ELSE /\ Len(calls') = Len(calls) + 1 /\ cref'[t] = Len(calls')
                 /\ calls'[cref'[t]] = NewCall(keyOf[t])
                 /\ pc'[t] \in WorkPcs

\* C16 (single-flight entry lifecycle): at every instant the in-flight map
\* holds at most one entry per key; an entry is removed from the map only
\* after its completion gate has been released; and once a Do(k, ...) leader
\* has returned, a subsequent Do(k, ...) starts a fresh execution of work
\* instead of reusing the old result.
C16_EntryLifecycle ==
    [] OneEntryPerKey /\ [][RemovedAfterRelease /\ FreshAfterReturn]_vars

\* a second call for a key runs its work after the first one's leader has
\* returned, its result still held by the first call
C16_Witness ==
    \E c, d \in 1 .. Len(calls) :
        /\ c < d /\ calls[c].key = calls[d].key
        /\ calls[c].done /\ calls[c].val = "630"
        /\ ~calls[d].stored
        /\ \E t \in Threads : Leads(t, d) /\ pc[t] = "loader"
        /\ \A t \in Threads : ~Leads(t, c)

\* the (key, value) pairs the cache shell holds
ShellEntries(c) ==
    IF c = NilCache THEN {}
    ELSE {<<c.doubleLinkList[i].key, c.doubleLinkList[i].value>> :
             i \in 1 .. Len(c.doubleLinkList)}

\* a Get whose value came from a remote peer returns that value, and neither
\* ran the loader nor called populateCache
RemoteReturned ==
    \A t \in Threads :
        flags[t].peerOk =>
            /\ ~flags[t].loaded /\ ~flags[t].populated
            /\ pc[t] \notin {"loader", "populateLock", "populate", "spin"}
            /\ HasReturned(t) =>
                  ret[t].val = DB[keyOf[t]] /\ ret[t].err = ""

\* a step that changes the cache shell is the populateCache of a goroutine
\* whose local load succeeded, or a cache hit that only reorders the list
ShellChange ==
    lru' # lru =>
        \/ \E t \in Threads :
              /\ pc[t] = "populate" /\ pc'[t] # "populate"
              /\ flags[t].loaded /\ ~flags[t].peerOk
              /\ fnres[t] = CallbackGet(keyOf[t]) /\ fnres[t].err = ""
        \/ \E t \in Threads :
              /\ pc[t] = "cacheGet" /\ pc'[t] = "idle"
              /\ ShellEntries(lru') = ShellEntries(lru)

\* C13 (remote values are not cached): when Group.Get(k) misses the cache and
\* the value is fetched successfully from a remote peer, the value is
\* returned to the caller and that Get leaves the local cache shell
\* unchanged; the contents of the cache shell change only on a successful
\* local load.
C13_RemoteNotCached == [] RemoteReturned /\ [][ShellChange]_vars

\* a Get returned a peer's value, a later one loaded locally after the peer
\* failed: the cache was created only then
C13_Witness ==
    \E t, u \in Threads :
        /\ t # u
        /\ flags[t].peerOk /\ HasReturned(t) /\ ret[t].val = "630"
        /\ flags[u].loaded /\ pc[u] = "populate" /\ lru = NilCache
        /\ peerCalls["Tom"] = 2

\* the ring resolves k to this node, or holds no node at all
OwnedLocally(k) ==
    /\ peers # NoPicker /\ ring # NilRing
    /\ RingGet(ring, hashfunc, k) \in {"", peers.self}

\* C8 (no self-RPC): whenever the ring resolves k to the node's own identity,
\* or the ring is empty, PickPeer(k) returns (_, false), and a Group.Get(k)
\* cache miss invokes the local loader and makes no peer-getter call.
C8_NoSelfRPC ==
    \A k \in GroupKeys \ {""} :
        OwnedLocally(k) =>
            /\ PickPeer(ring, hashfunc, peers.self, k) = ""
            /\ peerCalls[k] = 0
            /\ \A t \in Threads :
                  keyOf[t] = k =>
                      /\ pc[t] # "peerGet"
                      /\ flags[t].picked = ""
                      /\ (flags[t].role = "leader"
                          /\ (HasReturned(t) \/ pc[t] \in {"populateLock", "populate",
                                  "spin", "store", "release", "deleteLock", "delete"}))
                            => flags[t].loaded

\* a miss on a key the two-node ring gives to this node was loaded locally
C8_Witness ==
    \E t \in Threads :
        /\ keyOf[t] = "Tom" /\ OwnedLocally("Tom")
        /\ Len(ring.keys) > Replicas
        /\ RingGet(ring, hashfunc, "Tom") = Self
        /\ HasReturned(t) /\ flags[t].role = "leader" /\ flags[t].loaded

\* C9 (loader failure): when the loader returns an error for k, Group.Get(k)
\* returns that error, k is not cached, and the single-flight entry for k is
\* cleared (the map holds an entry only while its leader is inside Do), so a
\* later Get(k) invokes the loader again: every Get(k) that led a load ran the
\* loader itself, and of two successive Gets each ran it once.
C9_LoaderFailure ==
    /\ \A k \in (GroupKeys \ {""}) \ DOMAIN DB :
          /\ lru # NilCache => (k \notin lru.dictionary /\ k \notin LiveKeys(lru))
          /\ \A t \in Threads :
                (keyOf[t] = k /\ HasReturned(t)) =>
                    /\ ret[t].err = NotExist(k) /\ ret[t].val = ""
                    /\ flags[t].role = "leader" =>
                          flags[t].loaded /\ loads[k] > flags[t].loads0
          /\ TwoSuccessive(k) =>
                \A i \in 1 .. 2 : /\ solo[i].err = NotExist(k)
                                  /\ solo[i].loads1 = solo[i].loads0 + 1
    /\ \A k \in DOMAIN sfMap :
          \E t \in Threads :
              /\ keyOf[t] = k /\ cref[t] = sfMap[k]
              /\ flags[t].role = "leader"
              /\ pc[t] \in WorkPcs \cup {"store", "release", "deleteLock", "delete"}

\* a Get of an unknown key failed after an earlier one had: the loader ran
\* both times
C9_Witness ==
    \E t \in Threads :
        /\ keyOf[t] = "x" /\ HasReturned(t)
        /\ ret[t].err = NotExist("x")
        /\ flags[t].loads0 >= 1
        /\ loads["x"] >= 2
        /\ TwoSuccessive("x")
        /\ sfMap = <<>>

---------------------------------------------------------------------------
(* Properties of the consistent-hash ring                                  *)

\* C10 as stated (ring removal inverts add): for any ring, any hash function
\* and any node X not on the ring, after Add(X) then Remove(X) the sorted
\* integer array and the integer-to-name map equal their pre-Add values.
C10_RemoveInvertsAdd ==
    undo.phase = "removed" =>
        /\ ~ringPanic
        /\ ring.keys = undo.keys
        /\ ring.hashMap = undo.hashMap

\* the integer array is in ascending order
RingSorted ==
    \A i \in 1 .. Len(ring.keys) - 1 : ring.keys[i] <= ring.keys[i + 1]

\* C14 as stated (ring invariants): after any sequence of Add and Remove
\* calls the integer array is sorted ascending, has length R x (number of
\* real nodes on the ring), every integer in it is a key of the map whose
\* value is a real node on the ring, and so Get on a non-empty ring never
\* returns the empty name.  Stated here for the sequences that add only
\* nodes not on the ring and remove only nodes on it.
C14_RingInvariants ==
    ringHist.proper =>
        /\ ~ringPanic
        /\ RingSorted
        /\ Len(ring.keys) = Replicas * Cardinality(NodesOnRing)
        /\ \A i \in 1 .. Len(ring.keys) :
              /\ ring.keys[i] \in DOMAIN ring.hashMap
              /\ ring.hashMap[ring.keys[i]] \in NodesOnRing
        /\ \A k \in RingLookupKeys :
              Len(ring.keys) > 0 => RingGet(ring, hashfunc, k) # ""

\* the least point of the sorted array that is >= h, the smallest point when
\* h is greater than every point
Successor(keys, h) ==
    IF \E i \in 1 .. Len(keys) : keys[i] >= h
    THEN keys[CHOOSE i \in 1 .. Len(keys) :
                 /\ keys[i] >= h
                 /\ \A j \in 1 .. Len(keys) : keys[j] >= h => i <= j]
    ELSE keys[1]

\* what Get is to return for key on the ring r
Owner(r, key) ==
    IF Len(r.keys) = 0 THEN ""
    ELSE MapGet(r.hashMap, Successor(r.keys, hashfunc[key]))

\* C15 (ring lookup): for every key and every ring, the rings built by Add
\* among them, Get returns the empty name when the ring is empty and
\* otherwise the node mapped from the least virtual point >= hash(key),
\* wrapping to the smallest point when hash(key) is greater than every point;
\* a point equal to hash(key) is chosen.  The result is a function of the
\* ring and the key alone.
C15_RingLookup ==
    /\ \A k \in RingLookupKeys : RingGet(ring, hashfunc, k) = Owner(ring, k)
    /\ ringHist.op = "Get" => got = Owner(ring, ringHist.arg[1])

\* a Get on a ring of two nodes built by one Add, for a key that hashes to a
\* point of the ring which is not the first of the array
C15_Witness ==
    /\ ringHist.op = "Get" /\ undo = NoUndo /\ ringHist.proper
    /\ Len(ring.keys) = 2 * Replicas
    /\ \E i \in 2 .. Len(ring.keys) :
          /\ ring.keys[i] = hashfunc[ringHist.arg[1]]
          /\ ring.keys[i - 1] < ring.keys[i]
          /\ got = ring.hashMap[ring.keys[i]]
    /\ got # ""

\* C19 as stated (Remove of a name not on the ring): Remove(name) for a name
\* never added, or already removed, completes without failure and leaves the
\* integer array and the map unchanged.
C19_RemoveAbsent ==
    (ringHist.op = "Remove" /\ ringHist.absent) =>
        /\ ~ringPanic
        /\ ring.keys = ringHist.keys
        /\ ring.hashMap = ringHist.hashMap

\* C20 as stated (deadlock freedom of the read path): under fair scheduling,
\* with the loader callback and the peer getter always returning, every
\* Group.Get call eventually returns; no caller waits for ever on the
\* cache-shell mutex, the peer-picker mutex or a completion gate.  A panic
\* that ends the process is not counted as waiting.
C20_GetReturns ==
    \A t \in Threads : (pc[t] # "idle") ~> (pc[t] = "idle" \/ Crashed)

---------------------------------------------------------------------------
(* Properties of the registry and of RegisterPeers                         *)

\* C11 as stated (peer-picker single assignment): every call to
\* Group.RegisterPeers after the first one panics and leaves the installed
\* picker unchanged, whatever picker the first call passed.  Stated here for
\* calls made one after the other: a picker is in use only if no more than
\* one of them has returned.
C11_SingleAssignment ==
    (~regLog.overlap /\ peers # NoPicker) => regLog.registers <= 1

\* the group the last completed NewGroup(name, ...) among the first n inserts
\* stored, the nil *Group when there is none
RECURSIVE LastInserted(_, _, _)
LastInserted(log, n, name) ==
    IF n = 0 THEN 0
    ELSE IF log[n].name = name THEN log[n].group
    ELSE LastInserted(log, n - 1, name)

\* the registry lock is held by a writer or by readers, never both
RegistryLockSound ==
    /\ mu.writer # None => mu.readers = {}
    /\ \A t \in Threads :
          /\ pc[t] = "newGroupInsert" <=> mu.writer = t
          /\ pc[t] = "getGroupRead" <=> t \in mu.readers

\* C12 (group registry): after any sequence and interleaving of NewGroup and
\* GetGroup calls, GetGroup(name) returns the group most recently inserted
\* under that name by a completed NewGroup, as of its read under the shared
\* lock, and the nil *Group for a name no NewGroup has registered; NewGroup
\* with a nil callback panics without inserting anything.
C12_Registry ==
    /\ RegistryLockSound
    /\ \A t \in Threads :
          /\ (regCall[t].op = "GetGroup" /\ pc[t] = "idle") =>
                regCall[t].ret =
                    LastInserted(regLog.inserted, regCall[t].seen, regCall[t].name)
          /\ (regCall[t].op = "NewGroup" /\ pc[t] = "panicked") =>
                /\ regCall[t].ret = 0
                /\ \A name \in DOMAIN groups :
                      groups[name] =
                          LastInserted(regLog.inserted, Len(regLog.inserted), name)
    /\ \A name \in GroupNames :
          RegistryLookup(groups, name) =
              LastInserted(regLog.inserted, Len(regLog.inserted), name)

\* GetGroup returned the second group registered under a name, and the nil
\* group had been returned for the other name
C12_Witness ==
    \E t, u \in Threads :
        /\ t # u
        /\ regCall[t].op = "GetGroup" /\ pc[t] = "idle"
        /\ regCall[t].ret = 2 /\ regCall[t].name = "scores"
        /\ regLog.inserted[1].name = "scores"
        /\ regCall[u].op = "GetGroup" /\ pc[u] = "idle"
        /\ regCall[u].ret = 0 /\ regCall[u].name = "scores111"

---------------------------------------------------------------------------
(* Properties of the locks                                                 *)

\* the locks goroutine t holds
LocksHeld(t) ==
    {l \in {"registry", "cache", "singleflight", "picker"} :
        \/ l = "registry" /\ (mu.writer = t \/ t \in mu.readers)
        \/ l = "cache" /\ cacheMu = t
        \/ l = "singleflight" /\ sfMu = t
        \/ l = "picker" /\ pickMu = t}

\* the lock a goroutine holds at each place of the code, if any
LockAt(p) ==
    CASE p \in {"newGroupInsert", "getGroupRead"} -> {"registry"}
      [] p \in {"cacheGet", "populate", "spin"} -> {"cache"}
      [] p \in {"doLookup", "delete"} -> {"singleflight"}
      [] p \in {"pickPeer", "setBody"} -> {"picker"}
      [] OTHER -> {}

\* C17 (lock discipline): in every reachable state of concurrent Group.Get,
\* NewGroup, GetGroup, PickPeer and Set calls no goroutine holds two of the
\* locks (registry lock, cache-shell mutex, single-flight mutex, peer-picker
\* mutex) at the same time; the leader's work (peer pick, peer RPC, loader,
\* cache populate) runs with the single-flight mutex released.
C17_LockDiscipline ==
    \A t \in Threads :
        /\ Cardinality(LocksHeld(t)) <= 1
        /\ pc[t] # "panicked" => LocksHeld(t) = LockAt(pc[t])
        /\ pc[t] \in WorkPcs => sfMu # t

\* a leader populates the cache under the cache-shell mutex while the other
\* goroutine is inside Set under the picker's mutex
C17_Witness ==
    \E t, u \in Threads :
        /\ t # u
        /\ pc[t] = "populate" /\ cacheMu = t /\ flags[t].role = "leader"
        /\ pc[u] = "setBody" /\ pickMu = u
        /\ regLog.inserted # <<>>

=============================================================================
